---- MODULE Spec2Model ----
(***************************************************************************)
(* Interactive Instancer viewer state                                      *)
(* (scripts/python/interactiveinstancer/viewerstate.py, pythonmodule.py).  *)
(*                                                                         *)
(* The point cloud of GeometryParm is a sequence of point records in       *)
(* point-number order; point number n (0-based, as in the host) is element *)
(* n+1 of the sequence.  Vectors are integer triples, quaternions integer  *)
(* 4-tuples <<x, y, z, w>>; the rotations that occur are the half turns    *)
(* about the coordinate axes, on which the quaternion and matrix           *)
(* conversions below are exact.                                            *)
(***************************************************************************)
EXTENDS Integers, Sequences, FiniteSets, TLC

\* ------------------------------------------------------------- bounds
MaxPoints == 3      \* points a cloud holds at most
MaxId == 4          \* largest id addPoint hands out
CoordBound == 5     \* coordinates of a position stay in 0..CoordBound
ScaleBound == 2     \* scale components and pscale stay in 1..ScaleBound
MaxClicks == 2      \* largest id (so also most points) of a session
MaxGesture == 2     \* left-button events of one gesture
MaxHandlePoints == 1 \* points of the cloud in a session with the handle
MaxUndo == 2        \* undo boundaries open at a time

\* ------------------------------------------------------------- vectors
Vec3(x, y, z) == <<x, y, z>>
VAdd(a, b) == <<a[1] + b[1], a[2] + b[2], a[3] + b[3]>>
VSub(a, b) == <<a[1] - b[1], a[2] - b[2], a[3] - b[3]>>

\* hou.Matrix3 as three rows; a *= b is a' = a * b.
Identity3 == << <<1, 0, 0>>, <<0, 1, 0>>, <<0, 0, 1>> >>
MRow(a, b, i) ==
    << a[i][1] * b[1][1] + a[i][2] * b[2][1] + a[i][3] * b[3][1],
       a[i][1] * b[1][2] + a[i][2] * b[2][2] + a[i][3] * b[3][2],
       a[i][1] * b[1][3] + a[i][2] * b[2][3] + a[i][3] * b[3][3] >>
MMul(a, b) == <<MRow(a, b, 1), MRow(a, b, 2), MRow(a, b, 3)>>
Transposed(m) ==
    << <<m[1][1], m[2][1], m[3][1]>>,
       <<m[1][2], m[2][2], m[3][2]>>,
       <<m[1][3], m[2][3], m[3][3]>> >>
\* Matrix3.inverted() of a rotation matrix is its transpose.
inverted(m) == Transposed(m)

\* hou.Quaternion(q).extractRotationMatrix3(): the quaternion-to-matrix
\* formula (row-vector convention), which is not normalised: the zero
\* quaternion yields the identity matrix.
extractRotationMatrix3(q) ==
    LET x == q[1] y == q[2] z == q[3] w == q[4] IN
    << <<1 - 2 * (y * y + z * z), 2 * (x * y + w * z), 2 * (x * z - w * y)>>,
       <<2 * (x * y - w * z), 1 - 2 * (x * x + z * z), 2 * (y * z + w * x)>>,
       <<2 * (x * z + w * y), 2 * (y * z - w * x), 1 - 2 * (x * x + y * y)>> >>

\* hou.Quaternion(matrix3): on the half turns the squared components
\* (1 +- m00 +- m11 +- m22) / 4 are 0 or 1; the non-negative root is taken.
QuaternionOfMatrix(m) ==
    << (1 + m[1][1] - m[2][2] - m[3][3]) \div 4,
       (1 - m[1][1] + m[2][2] - m[3][3]) \div 4,
       (1 - m[1][1] - m[2][2] + m[3][3]) \div 4,
       (1 + m[1][1] + m[2][2] + m[3][3]) \div 4 >>

\* Rotation about one axis by 0 or 180 degrees.
AxisRotate(axis, deg) ==
    IF deg = 0 THEN Identity3
    ELSE << <<IF axis = 1 THEN 1 ELSE -1, 0, 0>>,
            <<0, IF axis = 2 THEN 1 ELSE -1, 0>>,
            <<0, 0, IF axis = 3 THEN 1 ELSE -1>> >>
\* hou.hmath.buildRotate(euler), rotation order xyz, then
\* extractRotationMatrix3() of the Matrix4.
buildRotate(r) ==
    MMul(MMul(AxisRotate(1, r[1]), AxisRotate(2, r[2])), AxisRotate(3, r[3]))

\* hou.Quaternion.extractEulerRotates(): degrees, rotation order xyz, the
\* y angle in [-90, 90]; a half turn about y is read back as (180, 0, 180).
extractEulerRotates(q) ==
    LET m == extractRotationMatrix3(q) IN
    <<IF m[3][3] = -1 THEN 180 ELSE 0, 0, IF m[1][1] = -1 THEN 180 ELSE 0>>

\* ------------------------------------------------------------- dataclasses
\* XformInfo(): the dataclass defaults.
XformInfo ==
    [position |-> Vec3(0, 0, 0), rotation |-> Vec3(0, 0, 0),
     scale |-> Vec3(1, 1, 1), uniform_scale |-> 1]

\* Mode
SingleCreate == "SingleCreate"
BrushCreate == "BrushCreate"
Edit == "Edit"
Mode == {SingleCreate, BrushCreate, Edit}

\* ------------------------------------------------------------- state
VARIABLES
    geometry,       \* gp.geometry: the in-memory point cloud
    selection,      \* gp.selection: None, or a hou.Selection (point numbers)
    ray_geo,        \* gp.ray_geo holds a copy of the guide ("guide") or is empty
    geo_ptc,        \* node.parm('geo_ptc'): the persisted point cloud
    data_geometry,  \* geometry of the nodegeo.GeometryData made on the node
    guide_polygons, \* node.node('GUIDE').geometry() has polygon primitives
    enable_guide,   \* value of the node's enable_guide toggle
    session,        \* "none" before onEnter, "active", "exited" after onExit
    mode,           \* State.mode
    pressed,        \* State.pressed
    handle_shown,   \* xform_handle visibility
    undo_stack,     \* scene_viewer: labels of the open state-undo boundaries
    op,             \* history: the operation or callback that ran last
    arg,            \* history: its input
    calls,          \* history: the undo calls and the addPoint and
                    \* setPointTransform calls it made, in order
    consumed,       \* history: the value it returned, FALSE when it returns none
    parms_written,  \* history: the handle parms it wrote, NoParms when none
    ever_ids,       \* history: ids of all points gp.geometry ever held
    cleared_ids,    \* history: ids of the points confirmed clearInstances removed
    gesture         \* history: the mouse gesture under way

store_vars == <<geometry, selection, geo_ptc>>
env_vars == <<ray_geo, guide_polygons, enable_guide>>
ui_vars == <<session, mode, pressed, handle_shown, undo_stack>>
out_vars == <<calls, consumed, parms_written>>
hist_vars == <<op, arg, out_vars, ever_ids, cleared_ids, gesture>>
vars == <<store_vars, data_geometry, env_vars, ui_vars, hist_vars>>

\* ------------------------------------------------------------- GeometryParm
\* self.selection = None
None == [isNone |-> TRUE, points |-> {}]
\* a hou.Selection holding the point numbers pts
Selection(pts) == [isNone |-> FALSE, points |-> pts]

\* The store a GeometryParm method works on: its geometry and selection and
\* the node parameter it writes.
GP == [geometry |-> geometry, selection |-> selection, geo_ptc |-> geo_ptc]

\* Defaults of the point attributes initGeometry declares with addAttrib.
orient_default == <<0, 0, 0, 0>>
scale_default == Vec3(1, 1, 1)
pscale_default == 1
id_default == 0

\* geometry.createPoint(): a point at the origin with the attribute defaults.
createPoint ==
    [P |-> Vec3(0, 0, 0), orient |-> orient_default, scale |-> scale_default,
     pscale |-> pscale_default, id |-> id_default]

\* GeometryParm.initGeometry: copy the persisted cloud when there is one.
initGeometry(persisted) ==
    [geometry |-> persisted, selection |-> None, geo_ptc |-> persisted]

\* GeometryParm.updateGeometryData
updateGeometryData(s) == [s EXCEPT !.geo_ptc = s.geometry]

\* A getLastPoint that reads the first point instead of the last.
getLastPoint_first(s) ==
    IF Len(s.geometry) = 0 THEN <<-1, 0>>
    ELSE <<0, s.geometry[1].id>>

\* GeometryParm.getLastPoint: (point number or -1 for None, id)
getLastPoint(s) ==
    IF Len(s.geometry) = 0 THEN <<-1, 0>>
    ELSE <<Len(s.geometry) - 1, s.geometry[Len(s.geometry)].id>>

\* An addPoint that adds the new point to the selection there is.
addPoint_keepsSelection(s, xform_info) ==
    LET last_pt == [createPoint EXCEPT !.P = xform_info.position,
                                       !.id = getLastPoint(s)[2] + 1]
        g == Append(s.geometry, last_pt)
    IN  updateGeometryData(
            [s EXCEPT !.geometry = g,
                      !.selection =
                          Selection(s.selection.points \cup {Len(g) - 1})])

\* GeometryParm.addPoint
addPoint(s, xform_info) ==
    LET last_id == getLastPoint(s)[2]
        last_pt == [createPoint EXCEPT !.P = xform_info.position,
                                       !.id = last_id + 1]
        g == Append(s.geometry, last_pt)
    IN  updateGeometryData(
            [s EXCEPT !.geometry = g, !.selection = Selection({Len(g) - 1})])

\* GeometryParm.getSelection: the selected point numbers that exist in the
\* geometry (in point-number order), empty for None.
getSelection(s) ==
    IF s.selection.isNone THEN {}
    ELSE {n \in s.selection.points : n < Len(s.geometry)}

\* The last of the points getSelection returns: points[-1].
LastOf(points) == CHOOSE n \in points : \A k \in points : k <= n

\* A setSelection for which no selection string selects every point.
setSelection_selectsAll(s, selection_str) ==
    updateGeometryData(
        IF Len(selection_str) > 0
        THEN [s EXCEPT !.selection =
                Selection({n \in selection_str[1] : n < Len(s.geometry)})]
        ELSE [s EXCEPT !.selection = Selection(0..(Len(s.geometry) - 1))])

\* GeometryParm.setSelection.  selection_str is the tuple
\* selectionStrings(empty_string_selects_all=False) returns; a string is
\* modelled by the set of point numbers it names.
setSelection(s, selection_str) ==
    updateGeometryData(
        IF Len(selection_str) > 0
        THEN [s EXCEPT !.selection =
                Selection({n \in selection_str[1] : n < Len(s.geometry)})]
        ELSE [s EXCEPT !.selection = None])

\* A deletePoints that removes only the last of the points.
deletePoints_lastOnly(g, points) ==
    [i \in 1..(Len(g) - 1) |->
        IF i - 1 < LastOf(points) THEN g[i] ELSE g[i + 1]]

\* geometry.deletePoints(points): the remaining points keep their order.
RECURSIVE Remaining(_, _, _)
Remaining(g, points, n) ==
    IF n >= Len(g) THEN <<>>
    ELSE (IF n \in points THEN <<>> ELSE <<g[n + 1]>>)
         \o Remaining(g, points, n + 1)
deletePoints(g, points) == Remaining(g, points, 0)

\* A delete that does not write the parameter.
delete_unsaved(s) ==
    LET points == getSelection(s) IN
    IF points = {} THEN s
    ELSE [s EXCEPT !.geometry = deletePoints(s.geometry, points),
                   !.selection = None]

\* GeometryParm.delete
delete(s) ==
    LET points == getSelection(s) IN
    IF points = {} THEN s
    ELSE updateGeometryData(
            [s EXCEPT !.geometry = deletePoints(s.geometry, points),
                      !.selection = None])

\* GeometryParm.getPointTransform
getPointTransform(s) ==
    LET points == getSelection(s) IN
    IF points = {} THEN XformInfo
    ELSE LET last_pt == s.geometry[LastOf(points) + 1] IN
         [position |-> last_pt.P,
          rotation |-> extractEulerRotates(last_pt.orient),
          scale |-> last_pt.scale,
          uniform_scale |-> last_pt.pscale]

\* A setPointTransform that puts every selected point at the target position
\* (as GeometryData.setPointTransform of nodegeo.py does for one point).
setPointTransform_absolute(s, xform_info) ==
    LET points == getSelection(s) IN
    IF points = {} THEN s
    ELSE updateGeometryData(
            [s EXCEPT !.geometry =
                [i \in 1..Len(s.geometry) |->
                    IF (i - 1) \in points
                    THEN [s.geometry[i] EXCEPT !.P = xform_info.position]
                    ELSE s.geometry[i]]])

\* GeometryParm.setPointTransform
setPointTransform(s, xform_info) ==
    LET points == getSelection(s) IN
    IF points = {} THEN s
    ELSE
      LET last_pt == s.geometry[LastOf(points) + 1]
          delta_position == VSub(xform_info.position, last_pt.P)
          delta_mtx == MMul(buildRotate(xform_info.rotation),
                            inverted(extractRotationMatrix3(last_pt.orient)))
          delta_scale == VSub(xform_info.scale, last_pt.scale)
          delta_uniform_scale == xform_info.uniform_scale - last_pt.pscale
          moved(point) ==
              [point EXCEPT
                 !.P = VAdd(point.P, delta_position),
                 !.orient = QuaternionOfMatrix(
                     MMul(MMul(Identity3, delta_mtx),
                          extractRotationMatrix3(point.orient))),
                 !.scale = VAdd(point.scale, delta_scale),
                 !.pscale = point.pscale + delta_uniform_scale]
      IN updateGeometryData(
            [s EXCEPT !.geometry =
                [i \in 1..Len(s.geometry) |->
                    IF (i - 1) \in points THEN moved(s.geometry[i])
                    ELSE s.geometry[i]]])

\* ------------------------------------------------------------- GeometryData
\* nodegeo.GeometryData: a second store on the node parameter, with a cloud of
\* its own and no selection.  Nothing in the viewer state uses it.
\* GeometryData.initGeometry: copy the persisted cloud when there is one.
GeometryData_initGeometry(persisted) == persisted

\* GeometryData.getLastPoint: (point number or -1 for None, id)
GeometryData_getLastPoint(g) ==
    IF Len(g) = 0 THEN <<-1, 0>> ELSE <<Len(g) - 1, g[Len(g)].id>>

\* GeometryData.genPointcloud: the cloud it leaves, which it writes to geo_ptc.
genPointcloud(g, position) ==
    Append(g, [createPoint EXCEPT !.P = position,
                                  !.id = GeometryData_getLastPoint(g)[2] + 1])

\* GeometryData.setPointTransform: point number n gets the handle values
\* themselves; the cloud it leaves, which it writes to geo_ptc.
GeometryData_setPointTransform(g, parms, n) ==
    [g EXCEPT ![n + 1] =
        [@ EXCEPT !.P = parms.position,
                  !.orient = QuaternionOfMatrix(buildRotate(parms.rotation)),
                  !.scale = parms.scale,
                  !.pscale = parms.uniform_scale]]

\* ------------------------------------------------------------- inputs
\* Positions a mouse ray or a caller can give.
Positions == {Vec3(0, 0, 0), Vec3(5, 0, 0)}
\* Target transforms of setPointTransform: a position with the default
\* rotation and scales (as onMouseEvent builds them), or with a half turn
\* about x and doubled scales (as a handle can give them).
PlainTargets == {[XformInfo EXCEPT !.position = p] : p \in Positions}
TurnedTargets ==
    {[position |-> p, rotation |-> Vec3(180, 0, 0),
      scale |-> Vec3(2, 1, 1), uniform_scale |-> 2] : p \in Positions}
Targets == PlainTargets \cup TurnedTargets
\* Handle parameters onHandleToState is given: the handle at the origin, or
\* moved along x with a half turn about x.
HandleParms ==
    {XformInfo,
     [XformInfo EXCEPT !.position = Vec3(5, 0, 0),
                       !.rotation = Vec3(180, 0, 0)]}
\* XformInfo objects addPoint is given: only the position is set.
PositionOnly(p) == [XformInfo EXCEPT !.position = p]
\* Selection string tuples: no string, or one string naming point numbers,
\* which may not exist in the cloud (n never does in a cloud of n points).
SelectionStringsOf(n) ==
    {<<>>, <<{n}>>} \cup {<<names>> : names \in SUBSET (0..n - 1)}
SelectionStrings == SelectionStringsOf(MaxPoints)

\* The points of a cloud stay inside the bounds of the model.
InBounds(g) ==
    \A i \in 1..Len(g) :
        /\ \A k \in 1..3 : /\ g[i].P[k] >= 0
                           /\ g[i].P[k] <= CoordBound
                           /\ g[i].scale[k] \in 1..ScaleBound
        /\ g[i].pscale \in 1..ScaleBound

Ids(g) == {g[i].id : i \in 1..Len(g)}

\* ------------------------------------------------------------- Init
NoGesture ==
    [events |-> 0, hits |-> 0, drags |-> 0, calls |-> <<>>, done |-> FALSE,
     plain |-> TRUE]
Interleaved == [NoGesture EXCEPT !.events = 1, !.plain = FALSE]
NoParms == <<>>

Init ==
    /\ geometry = <<>>
    /\ selection = None
    /\ geo_ptc = <<>>
    /\ data_geometry = <<>>
    /\ ray_geo = "empty"
    /\ guide_polygons \in BOOLEAN
    /\ enable_guide \in BOOLEAN
    /\ session = "none"
    /\ mode = SingleCreate
    /\ pressed = FALSE
    /\ handle_shown = FALSE
    /\ undo_stack = <<>>
    /\ op = "init"
    /\ arg = <<>>
    /\ calls = <<>>
    /\ consumed = FALSE
    /\ parms_written = NoParms
    /\ ever_ids = {}
    /\ cleared_ids = {}
    /\ gesture = NoGesture

\* The new store s replaces the current one; the history records the call.
Store(s) ==
    /\ geometry' = s.geometry
    /\ selection' = s.selection
    /\ geo_ptc' = s.geo_ptc
Called(name, input, s) ==
    /\ op' = name
    /\ arg' = input
    /\ UNCHANGED out_vars
    /\ ever_ids' = ever_ids \cup Ids(s.geometry)
    /\ UNCHANGED <<cleared_ids, data_geometry>>

\* ------------------------------------------------------------- store calls
\* The GeometryParm of a node without persisted points, driven directly.
StoreInit ==
    /\ Init
    /\ guide_polygons = FALSE
    /\ enable_guide = FALSE

CallAddPoint(positions) ==
    \E p \in positions :
        /\ Len(geometry) < MaxPoints
        /\ getLastPoint(GP)[2] < MaxId
        /\ Store(addPoint(GP, PositionOnly(p)))
        /\ Called("addPoint", PositionOnly(p), addPoint(GP, PositionOnly(p)))
        /\ UNCHANGED <<env_vars, ui_vars, gesture>>

CallSetSelection ==
    \E selection_str \in SelectionStrings :
        /\ Store(setSelection(GP, selection_str))
        /\ Called("setSelection", selection_str, setSelection(GP, selection_str))
        /\ UNCHANGED <<env_vars, ui_vars, gesture>>

CallDelete ==
    /\ Store(delete(GP))
    /\ Called("delete", <<>>, delete(GP))
    /\ UNCHANGED <<env_vars, ui_vars, gesture>>

CallSetPointTransform(targets) ==
    \E xform_info \in targets :
        /\ InBounds(setPointTransform(GP, xform_info).geometry)
        /\ Store(setPointTransform(GP, xform_info))
        /\ Called("setPointTransform", xform_info,
                  setPointTransform(GP, xform_info))
        /\ UNCHANGED <<env_vars, ui_vars, gesture>>

\* GeometryParm.updateGeometryData called on its own.
CallUpdateGeometryData ==
    /\ Store(updateGeometryData(GP))
    /\ Called("updateGeometryData", <<>>, updateGeometryData(GP))
    /\ UNCHANGED <<env_vars, ui_vars, gesture>>

StoreNext ==
    \/ CallAddPoint(Positions)
    \/ CallSetSelection
    \/ CallDelete
    \/ CallSetPointTransform(PlainTargets)

StoreSpec == StoreInit /\ [][StoreNext]_vars

\* The same store with handle targets that also turn and scale; the cloud
\* only grows, by points at the origin.
XformNext ==
    \/ CallAddPoint({Vec3(0, 0, 0)})
    \/ CallSetSelection
    \/ CallSetPointTransform(Targets)

XformSpec == StoreInit /\ [][XformNext]_vars

\* ------------------------------------------------------------- GeometryData calls
\* What a GeometryData call leaves behind; the GeometryParm is not involved.
DataCalled(name, input) ==
    /\ op' = name
    /\ arg' = input
    /\ UNCHANGED <<geometry, selection, env_vars, ui_vars, out_vars, ever_ids,
                   cleared_ids, gesture>>

\* GeometryData(node): a new object, which reads the persisted cloud.
NewGeometryData ==
    /\ data_geometry' = GeometryData_initGeometry(geo_ptc)
    /\ DataCalled("GeometryData", <<>>)
    /\ UNCHANGED geo_ptc

CallGenPointcloud(positions) ==
    \E position \in positions :
        /\ Len(data_geometry) < MaxPoints
        /\ GeometryData_getLastPoint(data_geometry)[2] < MaxId
        /\ data_geometry' = genPointcloud(data_geometry, position)
        /\ geo_ptc' = data_geometry'
        /\ DataCalled("genPointcloud", position)

CallDataSetPointTransform(targets) ==
    \E parms \in targets : \E n \in 0..(Len(data_geometry) - 1) :
        /\ data_geometry' =
              GeometryData_setPointTransform(data_geometry, parms, n)
        /\ geo_ptc' = data_geometry'
        /\ DataCalled("GeometryData.setPointTransform", <<parms, n>>)

\* GeometryData.updateGeometryData called on its own: the object's cloud
\* replaces the persisted one.
CallDataUpdateGeometryData ==
    /\ geo_ptc' = data_geometry
    /\ DataCalled("GeometryData.updateGeometryData", <<>>)
    /\ UNCHANGED data_geometry

\* A GeometryData driven directly on a node whose GeometryParm adds points at
\* the origin, deletes them and writes its cloud.
DataNext ==
    \/ CallAddPoint({Vec3(0, 0, 0)})
    \/ CallDelete
    \/ CallUpdateGeometryData
    \/ NewGeometryData
    \/ CallDataUpdateGeometryData
    \/ CallGenPointcloud(Positions)
    \/ CallDataSetPointTransform(Targets)

DataSpec == StoreInit /\ [][DataNext]_vars

\* ------------------------------------------------------------- State
\* GeometryParm.isGuideValid: the value returned; the guide is valid when it
\* holds polygons.  RayGeoAfter is the cache it leaves in ray_geo.
isGuideValid == guide_polygons
RayGeoAfter == IF guide_polygons THEN "guide" ELSE "empty"

\* node.parm('enable_guide') in a condition: the hou.Parm object itself, which
\* is true whatever the value of the toggle.
EnableGuideParm == TRUE

\* A mouse ray: where it meets the construction plane, and where it hits the
\* guide surface (Miss when it does not).
Miss == <<>>
Rays == {[cplane |-> Vec3(0, 0, 0), guide |-> Vec3(5, 0, 0)],
         [cplane |-> Vec3(5, 0, 0), guide |-> Miss]}
\* hou.uiEventReason values of a mouse event.
Reasons == {"Start", "Active", "Changed"}
\* Events with the left button down, for any reason, and the event without it
\* that follows the release of the button.
MouseEvents ==
    [left : {TRUE}, reason : Reasons, ray : Rays]
    \cup [left : {FALSE}, reason : {"Changed"}, ray : {r \in Rays : r.guide = Miss}]
\* The events of clicks: the press at the first ray, and the release.
ClickEvents ==
    {ev \in MouseEvents :
        ~ev.left \/ (ev.reason = "Start" /\ ev.ray.guide # Miss)}
Keys == {"f", "b", "g", "Del", "x"}

\* GeometryParm.intersect: hitprim < 0 is Miss, otherwise the hit position.
intersect(cache, ray) == IF cache = "guide" THEN ray.guide ELSE Miss

\* GeometryParm.minPos: the nearest position on the cached guide surface, the
\* position itself when the cache holds no primitive.
minPos(cache, position) == IF cache = "guide" THEN Vec3(5, 0, 0) ELSE position

\* GeometryParm.snapToGuide
snapToGuide(s, cache, xform_info) ==
    IF getSelection(s) = {} THEN xform_info
    ELSE [xform_info EXCEPT !.position = minPos(cache, xform_info.position)]

\* scene_viewer.beginStateUndo(label) and scene_viewer.endStateUndo() on the
\* open boundaries of the viewer: a begin opens one inside those that are
\* open, an end closes the one opened last (none when none is open).
beginStateUndo(stack, label) == Append(stack, label)
endStateUndo(stack) ==
    IF stack = <<>> THEN stack ELSE SubSeq(stack, 1, Len(stack) - 1)

\* The part of a State the press protocol works on: the store, the pressed
\* flag, the open undo boundaries of the viewer and the calls made so far.
StartState(s) ==
    [gp |-> s, pressed |-> pressed, undo_stack |-> undo_stack,
     calls |-> <<>>]

\* A start that does not look at the pressed flag.
start_unguarded(st, xform_info) ==
    LET begun == [st EXCEPT !.undo_stack = beginStateUndo(@, "add"),
                            !.calls = Append(@, "beginStateUndo")]
    IN  IF mode = SingleCreate
        THEN [begun EXCEPT !.gp = addPoint(@, xform_info),
                           !.calls = Append(@, "addPoint"),
                           !.pressed = TRUE]
        ELSE [begun EXCEPT !.pressed = TRUE]

\* State.start
start(st, xform_info) ==
    IF ~st.pressed
    THEN LET begun == [st EXCEPT !.undo_stack = beginStateUndo(@, "add"),
                                 !.calls = Append(@, "beginStateUndo")]
         IN  IF mode = SingleCreate
             THEN [begun EXCEPT !.gp = addPoint(@, xform_info),
                                !.calls = Append(@, "addPoint"),
                                !.pressed = TRUE]
             ELSE [begun EXCEPT !.pressed = TRUE]
    ELSE [st EXCEPT !.pressed = TRUE]

\* A finish that clears the flag and leaves the undo boundary open.
finish_noEnd(st) == [st EXCEPT !.pressed = FALSE]

\* State.finish
finish(st) ==
    IF st.pressed
    THEN [st EXCEPT !.undo_stack = endStateUndo(@),
                    !.calls = Append(@, "endStateUndo"),
                    !.pressed = FALSE]
    ELSE [st EXCEPT !.pressed = FALSE]

\* The position State.onMouseEvent places at for a left-button event: from the
\* guide when the parameter and the guide check allow it (Miss: the handler
\* returns), otherwise from the construction plane.
PlacePosition(ray) ==
    IF EnableGuideParm /\ isGuideValid THEN intersect(RayGeoAfter, ray)
    ELSE ray.cplane

\* State.onMouseEvent on the press-protocol state.
onMouseEvent(st, ev) ==
    IF ev.left
    THEN IF PlacePosition(ev.ray) = Miss THEN st
         ELSE LET xform_info == PositionOnly(PlacePosition(ev.ray))
                  started == start(st, xform_info)
              IN  IF mode # BrushCreate /\ ev.reason = "Active"
                  THEN [started EXCEPT
                          !.gp = setPointTransform(@, xform_info),
                          !.calls = Append(@, "setPointTransform")]
                  ELSE started
    ELSE finish(st)

\* State.setHandleVisibility: the visibility it sets and returns.
setHandleVisibility(s) == ~s.selection.isNone

\* The gesture under way: the left-button events up to the next event without
\* the left button, with the calls they made; hits counts the events that
\* found a place, drags those of them with reason Active.  It is followed while only mouse
\* events arrive and the mode is SingleCreate; another callback in between
\* leaves Interleaved, and the gesture is forgotten after the callback that
\* follows its end.
GestureOpen == gesture.events > 0 /\ ~gesture.done
GestureAfterMouse(ev, st) ==
    IF gesture = Interleaved \/ mode # SingleCreate
    THEN IF ev.left THEN Interleaved ELSE NoGesture
    ELSE LET g == IF GestureOpen THEN gesture ELSE NoGesture
             hit == ev.left /\ PlacePosition(ev.ray) # Miss
         IN  [g EXCEPT !.events = IF ev.left THEN @ + 1 ELSE @,
                       !.hits = IF hit THEN @ + 1 ELSE @,
                       !.drags = IF hit /\ ev.reason = "Active"
                                 THEN @ + 1 ELSE @,
                       !.calls = IF ev.left \/ GestureOpen
                                 THEN @ \o st.calls ELSE @,
                       !.done = ~ev.left /\ GestureOpen]
GestureAfterOther == IF GestureOpen THEN Interleaved ELSE NoGesture

Active == session = "active"

\* What a callback leaves behind: its name and input, its return value, the
\* handle parms it wrote, and the ids of the cloud it leaves in gp.geometry.
Callback(name, input, made, returned, parms) ==
    /\ op' = name
    /\ arg' = input
    /\ calls' = made
    /\ consumed' = returned
    /\ parms_written' = parms
    /\ ever_ids' = ever_ids \cup Ids(geometry')
    /\ UNCHANGED <<cleared_ids, data_geometry>>

\* State.onEnter: GeometryParm(node) reads the persisted cloud.
OnEnter ==
    /\ session = "none"
    /\ session' = "active"
    /\ Store(initGeometry(geo_ptc))
    /\ ray_geo' = RayGeoAfter
    /\ Callback("onEnter", <<>>, <<>>, FALSE, NoParms)
    /\ UNCHANGED <<guide_polygons, enable_guide, mode, pressed, handle_shown,
                   undo_stack, gesture>>

\* State.onMouseEvent, for the mouse events of a set.
OnMouseEventOf(events) ==
    \E ev \in events :
        LET st == onMouseEvent(StartState(GP), ev) IN
        /\ Active
        /\ ev.left => /\ (IF GestureOpen THEN gesture.events ELSE 0) < MaxGesture
                      /\ getLastPoint(st.gp)[2] <= MaxClicks
                      /\ InBounds(st.gp.geometry)
                      /\ Len(st.undo_stack) <= MaxUndo
        /\ Store(st.gp)
        /\ pressed' = st.pressed
        /\ undo_stack' = st.undo_stack
        /\ ray_geo' = IF ev.left THEN RayGeoAfter ELSE ray_geo
        /\ gesture' = GestureAfterMouse(ev, st)
        /\ Callback("onMouseEvent", ev, st.calls, FALSE, NoParms)
        /\ UNCHANGED <<guide_polygons, enable_guide, session, mode,
                       handle_shown>>

\* State.onMouseEvent
OnMouseEvent == OnMouseEventOf(MouseEvents)

\* State.onMouseWheelEvent
OnMouseWheelEvent ==
    /\ Active
    /\ UNCHANGED store_vars
    /\ Callback("onMouseWheelEvent", <<>>, <<>>, FALSE, NoParms)
    /\ gesture' = GestureAfterOther
    /\ UNCHANGED <<env_vars, ui_vars>>

\* An onKeyEvent whose 'g' branch leaves the mode alone.
onKeyEvent_gKeepsMode(s, m, key) ==
    CASE key = "f" -> [gp |-> s, mode |-> SingleCreate, consumed |-> TRUE]
      [] key = "b" -> [gp |-> s, mode |-> m, consumed |-> TRUE]
      [] key = "g" -> [gp |-> s, mode |-> m, consumed |-> TRUE]
      [] key = "Del" -> [gp |-> delete(s), mode |-> m, consumed |-> TRUE]
      [] OTHER -> [gp |-> s, mode |-> m, consumed |-> FALSE]

\* An onKeyEvent whose 'Del' branch deletes in Edit mode only.
onKeyEvent_delInEditOnly(s, m, key) ==
    CASE key = "f" -> [gp |-> s, mode |-> SingleCreate, consumed |-> TRUE]
      [] key = "b" -> [gp |-> s, mode |-> m, consumed |-> TRUE]
      [] key = "g" -> [gp |-> s, mode |-> Edit, consumed |-> TRUE]
      [] key = "Del" -> [gp |-> IF m = Edit THEN delete(s) ELSE s,
                         mode |-> m, consumed |-> TRUE]
      [] OTHER -> [gp |-> s, mode |-> m, consumed |-> FALSE]

\* State.onKeyEvent on the store s in mode m: the store and the mode it leaves
\* and the value it returns.  The 'b' branch assigns no mode.
onKeyEvent(s, m, key) ==
    CASE key = "f" -> [gp |-> s, mode |-> SingleCreate, consumed |-> TRUE]
      [] key = "b" -> [gp |-> s, mode |-> m, consumed |-> TRUE]
      [] key = "g" -> [gp |-> s, mode |-> Edit, consumed |-> TRUE]
      [] key = "Del" -> [gp |-> delete(s), mode |-> m, consumed |-> TRUE]
      [] OTHER -> [gp |-> s, mode |-> m, consumed |-> FALSE]

\* State.onKeyEvent
OnKeyEvent ==
    \E key \in Keys :
        LET st == onKeyEvent(GP, mode, key) IN
        /\ Active
        /\ Store(st.gp)
        /\ mode' = st.mode
        /\ Callback("onKeyEvent", key, <<>>, st.consumed, NoParms)
        /\ gesture' = GestureAfterOther
        /\ UNCHANGED <<env_vars, session, pressed, handle_shown, undo_stack>>

\* State.onInterrupt
OnInterrupt ==
    LET st == finish(StartState(GP)) IN
    /\ Active
    /\ UNCHANGED store_vars
    /\ pressed' = st.pressed
    /\ undo_stack' = st.undo_stack
    /\ Callback("onInterrupt", <<>>, st.calls, FALSE, NoParms)
    /\ gesture' = GestureAfterOther
    /\ UNCHANGED <<env_vars, session, mode, handle_shown>>

\* State.onResume
OnResume ==
    /\ Active
    /\ UNCHANGED store_vars
    /\ ray_geo' = RayGeoAfter
    /\ Callback("onResume", <<>>, <<>>, FALSE, NoParms)
    /\ gesture' = GestureAfterOther
    /\ UNCHANGED <<guide_polygons, enable_guide, ui_vars>>

\* State.onExit
OnExit ==
    /\ Active
    /\ UNCHANGED store_vars
    /\ session' = "exited"
    /\ Callback("onExit", <<>>, <<>>, FALSE, NoParms)
    /\ gesture' = GestureAfterOther
    /\ UNCHANGED <<env_vars, mode, pressed, handle_shown, undo_stack>>

\* State.onSelection, for the selection strings of a set.
OnSelectionOf(strings) ==
    \E selection_str \in strings :
        LET s == setSelection(GP, selection_str) IN
        /\ Active
        /\ Store(s)
        /\ handle_shown' = setHandleVisibility(s)
        /\ Callback("onSelection", selection_str, <<>>, FALSE, NoParms)
        /\ gesture' = GestureAfterOther
        /\ UNCHANGED <<env_vars, session, mode, pressed, undo_stack>>

\* State.onSelection
OnSelection == OnSelectionOf(SelectionStringsOf(MaxClicks))

\* State.onStateToHandle
OnStateToHandle ==
    /\ Active
    /\ UNCHANGED store_vars
    /\ handle_shown' = ~selection.isNone
    /\ Callback("onStateToHandle", <<>>, <<>>, FALSE,
                IF selection.isNone THEN NoParms ELSE getPointTransform(GP))
    /\ gesture' = GestureAfterOther
    /\ UNCHANGED <<env_vars, session, mode, pressed, undo_stack>>

\* State.onBeginHandleToState: it opens an 'editing' undo boundary, whatever
\* boundaries are open.
OnBeginHandleToState ==
    /\ Active
    /\ UNCHANGED store_vars
    /\ Len(undo_stack) < MaxUndo
    /\ undo_stack' = beginStateUndo(undo_stack, "editing")
    /\ Callback("onBeginHandleToState", <<>>, <<"beginStateUndo">>, FALSE,
                NoParms)
    /\ gesture' = GestureAfterOther
    /\ UNCHANGED <<env_vars, session, mode, pressed, handle_shown>>

\* State.onHandleToState
OnHandleToState ==
    \E parms \in HandleParms :
        LET s == setPointTransform(GP, snapToGuide(GP, ray_geo, parms)) IN
        /\ Active
        /\ InBounds(s.geometry)
        /\ Store(s)
        /\ Callback("onHandleToState", parms, <<"setPointTransform">>, FALSE,
                    NoParms)
        /\ gesture' = GestureAfterOther
        /\ UNCHANGED <<env_vars, ui_vars>>

\* State.onEndHandleToState: it ends the undo boundary opened last, whichever
\* callback opened it.
OnEndHandleToState ==
    /\ Active
    /\ UNCHANGED store_vars
    /\ undo_stack' = endStateUndo(undo_stack)
    /\ Callback("onEndHandleToState", <<>>, <<"endStateUndo">>, FALSE, NoParms)
    /\ gesture' = GestureAfterOther
    /\ UNCHANGED <<env_vars, session, mode, pressed, handle_shown>>

\* pythonmodule.clearInstances: the node's button, with the user's answer to
\* the confirmation.  It sets the parameter of the node and knows nothing of a
\* State or its GeometryParm.
ClearInstances ==
    \E choice \in BOOLEAN :
        /\ geo_ptc' = IF choice THEN <<>> ELSE geo_ptc
        /\ op' = "clearInstances"
        /\ arg' = choice
        /\ calls' = <<>>
        /\ consumed' = FALSE
        /\ parms_written' = NoParms
        /\ cleared_ids' = IF choice THEN cleared_ids \cup Ids(geo_ptc)
                          ELSE cleared_ids
        /\ gesture' = GestureAfterOther
        /\ UNCHANGED <<geometry, selection, data_geometry, env_vars, ui_vars,
                       ever_ids>>

\* A session: the host's callbacks in any order, with the press gestures.
Next ==
    \/ OnEnter
    \/ OnMouseEvent
    \/ OnKeyEvent
    \/ OnInterrupt
    \/ OnResume
    \/ OnExit
    \/ OnSelection

\* The session of a node whose enable_guide toggle is on.
SessionInit == Init /\ enable_guide

Spec == SessionInit /\ [][Next]_vars

\* The same session with the manipulation handle: the host also reports the
\* wheel, pulls the handle parameters and drags the handle.  The mouse only
\* clicks, and the cloud holds at most MaxHandlePoints points.
HandleNext ==
    \/ OnEnter
    \/ (OnMouseEventOf(ClickEvents) /\ Len(geometry') <= MaxHandlePoints)
    \/ OnMouseWheelEvent
    \/ OnKeyEvent
    \/ OnInterrupt
    \/ OnResume
    \/ OnExit
    \/ OnSelectionOf(SelectionStringsOf(MaxHandlePoints))
    \/ OnStateToHandle
    \/ OnBeginHandleToState
    \/ OnHandleToState
    \/ OnEndHandleToState

\* The node has no guide geometry.
HandleInit == SessionInit /\ ~guide_polygons

HandleSpec == HandleInit /\ [][HandleNext]_vars

\* Placing points on nodes with the enable_guide toggle on or off, with and
\* without a valid guide.
GuideNext ==
    \/ OnEnter
    \/ OnMouseEvent
    \/ OnResume

GuideSpec == Init /\ [][GuideNext]_vars

\* A session on a node without guide geometry whose clear button is pressed
\* at any time, before or while the state is active.
ClearNext ==
    \/ OnEnter
    \/ OnMouseEvent
    \/ OnKeyEvent
    \/ OnSelection
    \/ ClearInstances

ClearSpec == HandleInit /\ [][ClearNext]_vars

\* ------------------------------------------------------------- claims
\* The largest id of a cloud, 0 for the empty cloud.
MaxIdOf(g) == IF Len(g) = 0 THEN 0
              ELSE CHOOSE m \in Ids(g) : \A k \in Ids(g) : k <= m
LastPointOf(g) == g[Len(g)]
\* The orientation that turns nothing.
IdentityQuaternion == <<0, 0, 0, 1>>
Selected == getSelection(GP)

\* C1: in every reachable state of the store the ids are strictly increasing in
\* insertion order, and every addPoint gives the new point the id
\* 1 + the largest id of the cloud before the call (1 for the empty cloud).
IdsStrictlyIncreasing ==
    \A i, j \in 1..Len(geometry) : i < j => geometry[i].id < geometry[j].id
AddAssignsMaxPlusOne ==
    op' = "addPoint" =>
        /\ Len(geometry') = Len(geometry) + 1
        /\ LastPointOf(geometry').id = 1 + MaxIdOf(geometry)
C1_IdsIncreasing == []IdsStrictlyIncreasing /\ [][AddAssignsMaxPlusOne]_vars
C1_Witness ==
    /\ op = "addPoint"
    /\ Len(geometry) = 3
    /\ Ids(geometry) = {1, 3, 4}

\* C2: the id addPoint assigns is the id of no point that ever existed in the
\* cloud, deleted points included.
C2_IdNeverReused ==
    [][op' = "addPoint" => LastPointOf(geometry').id \notin ever_ids]_vars

\* C3: after addPoint(p) the cloud is the old cloud followed by the new point at
\* p, getLastPoint returns that point and its id, and the selection is exactly
\* that point.
AddPointPost ==
    op' = "addPoint" =>
        /\ Len(geometry') = Len(geometry) + 1
        /\ SubSeq(geometry', 1, Len(geometry)) = geometry
        /\ LastPointOf(geometry').P = arg'.position
        /\ getLastPoint(GP)' =
              <<Len(geometry), LastPointOf(geometry').id>>
        /\ selection' = Selection({Len(geometry)})
C3_AddPointLastAndSelected == [][AddPointPost]_vars
C3_Witness ==
    /\ op = "addPoint"
    /\ Len(geometry) = 3
    /\ LastPointOf(geometry).P = Vec3(5, 0, 0)
    /\ geometry[1].P = Vec3(0, 0, 0)
    /\ selection = Selection({2})

\* C4: the first addPoint at (0,0,0) on a store without persisted points yields
\* one point with id 1, the identity orientation, scale (1,1,1) and uniform
\* scale 1, and that point is the sole selection.
C4_FirstPointDefaults ==
    (op = "addPoint" /\ ever_ids = {1} /\ arg.position = Vec3(0, 0, 0)) =>
        /\ geometry = << [P |-> Vec3(0, 0, 0), orient |-> IdentityQuaternion,
                          scale |-> Vec3(1, 1, 1), pscale |-> 1, id |-> 1] >>
        /\ selection = Selection({0})

\* C5: right after addPoint, setSelection, delete with selected points and
\* setPointTransform with selected points the persisted geo_ptc parameter holds
\* exactly the in-memory cloud of the store, whatever it held before.
NoDeferredWrites ==
    (\/ op' \in {"addPoint", "setSelection"}
     \/ op' \in {"delete", "setPointTransform"} /\ Selected # {}) =>
        geo_ptc' = geometry'
C5_NoDeferredWrites == [][NoDeferredWrites]_vars
C5_Witness ==
    /\ op = "delete"
    /\ Len(geometry) = 1
    /\ geo_ptc = geometry
    /\ ever_ids = {1, 2, 3}

\* C6: delete removes exactly the selected points, keeps every other point as
\* it was and in the same order, and leaves the selection empty; with an empty
\* selection it changes neither the cloud nor the persisted parameter.
\* Place of point number n once the selected points before it are gone.
PlaceAfterDelete(n, points) == n + 1 - Cardinality({k \in points : k < n})
DeletePost ==
    op' = "delete" =>
        IF Selected = {}
        THEN /\ geometry' = geometry
             /\ geo_ptc' = geo_ptc
             /\ Selected' = {}
        ELSE /\ Len(geometry') = Len(geometry) - Cardinality(Selected)
             /\ \A n \in 0..(Len(geometry) - 1) :
                    n \notin Selected =>
                        geometry'[PlaceAfterDelete(n, Selected)] = geometry[n + 1]
             /\ Selected' = {}
             /\ selection' = None
C6_DeleteExactlySelected == [][DeletePost]_vars
C6_Witness ==
    /\ op = "delete"
    /\ Len(geometry) = 2
    /\ Ids(geometry) = {1, 3}
    /\ selection = None

\* C7: setSelection with no selection string, or with one that names no point
\* of the cloud, leaves the selection empty; otherwise the selection is exactly
\* the points of the cloud the string names.  The cloud is not changed.
SetSelectionPost ==
    op' = "setSelection" =>
        /\ geometry' = geometry
        /\ IF Len(arg') = 0
           THEN selection' = None /\ Selected' = {}
           ELSE Selected' = arg'[1] \cap 0..(Len(geometry) - 1)
C7_SetSelectionExact == [][SetSelectionPost]_vars
C7_Witness ==
    /\ op = "setSelection"
    /\ arg = <<>>
    /\ Len(geometry) = 2
    /\ selection = None

\* C8: setPointTransform on a non-empty selection moves every selected point
\* by target.position minus the old position of the last selected point, which
\* ends at target.position; unselected points are unchanged; no point is
\* added, removed or given another id.
SetPointTransformMoves ==
    (op' = "setPointTransform" /\ Selected # {}) =>
        LET delta == VSub(arg'.position, geometry[LastOf(Selected) + 1].P) IN
        /\ Len(geometry') = Len(geometry)
        /\ geometry'[LastOf(Selected) + 1].P = arg'.position
        /\ \A i \in 1..Len(geometry) :
              /\ geometry'[i].id = geometry[i].id
              /\ (i - 1) \in Selected =>
                    geometry'[i].P = VAdd(geometry[i].P, delta)
              /\ (i - 1) \notin Selected => geometry'[i] = geometry[i]
C8_GroupRigidTranslation == [][SetPointTransformMoves]_vars
\* The example: ids {1,2,3}, points 2 and 3 selected, point 3 moved to (5,0,0),
\* point 2 moved along from another place, point 1 left at the origin.
C8_Witness ==
    /\ op = "setPointTransform"
    /\ arg.position = Vec3(5, 0, 0)
    /\ Len(geometry) = 3
    /\ Ids(geometry) = {1, 2, 3}
    /\ selection = Selection({1, 2})
    /\ geometry[3].P = Vec3(5, 0, 0)
    /\ geometry[2].P = Vec3(5, 0, 0)
    /\ geometry[2].orient # geometry[3].orient
    /\ geometry[1].P = Vec3(0, 0, 0)
    /\ geometry[1].orient = orient_default

\* C9: setPointTransform with the transform getPointTransform reports for a
\* non-empty selection changes no point; with an empty selection it changes
\* nothing for any target.
C9_SetCurrentTransformIsNoOp ==
    [][op' = "setPointTransform" =>
          /\ (Selected # {} /\ arg' = getPointTransform(GP)) =>
                geometry' = geometry
          /\ Selected = {} => geometry' = geometry /\ geo_ptc' = geo_ptc]_vars

\* C10: the beginStateUndo('add') and endStateUndo calls of start and finish
\* alternate, beginning with a begin; pressed is true exactly while such a
\* boundary is open; every addPoint and setPointTransform of onMouseEvent is
\* made inside it; and a press-drag-release in SingleCreate mode makes one
\* boundary holding one addPoint followed by the setPointTransform calls of
\* the drag.
\* The open boundaries after the calls cs made from depth d; -1 when a begin is
\* made inside a boundary, or an end or a store call outside one.
RECURSIVE DepthAfter(_, _)
DepthAfter(d, cs) ==
    IF cs = <<>> \/ d = -1 THEN d
    ELSE LET c == Head(cs) IN
         DepthAfter(CASE c = "beginStateUndo" -> IF d = 0 THEN 1 ELSE -1
                      [] c = "endStateUndo" -> IF d = 1 THEN 0 ELSE -1
                      [] OTHER -> IF d = 1 THEN 1 ELSE -1,
                    Tail(cs))
PressedIffBoundaryOpen ==
    /\ undo_stack \in {<<>>, <<"add">>}
    /\ pressed <=> undo_stack = <<"add">>
CallsInsideBoundary ==
    op' \in {"onMouseEvent", "onInterrupt"} =>
        /\ DepthAfter(Len(undo_stack), calls') # -1
        /\ DepthAfter(Len(undo_stack), calls') = Len(undo_stack')
\* begin, addPoint, n times setPointTransform, end
OneBoundary(n) ==
    <<"beginStateUndo", "addPoint">>
    \o [i \in 1..n |-> "setPointTransform"] \o <<"endStateUndo">>
GestureMakesOneBoundary ==
    gesture.done => gesture.calls = OneBoundary(gesture.drags)
C10_Original ==
    /\ []PressedIffBoundaryOpen
    /\ [][CallsInsideBoundary]_vars
    /\ []GestureMakesOneBoundary
\* C10 as amended: the gesture makes that one boundary when one of its
\* left-button events finds a place for the point; when every ray misses the
\* valid guide it makes no call at all.
GestureMakesOneBoundaryOrNone ==
    gesture.done =>
        IF gesture.hits = 0 THEN gesture.calls = <<>>
        ELSE gesture.calls = OneBoundary(gesture.drags)
C10_PressUndoProtocol ==
    /\ []PressedIffBoundaryOpen
    /\ [][CallsInsideBoundary]_vars
    /\ []GestureMakesOneBoundaryOrNone
C10_Witness ==
    /\ gesture.done
    /\ gesture.events = 2
    /\ gesture.calls = <<"beginStateUndo", "addPoint", "setPointTransform",
                         "endStateUndo">>
    /\ ~pressed
    /\ Len(geometry) = 2
    /\ LastPointOf(geometry).P = Vec3(5, 0, 0)
    /\ LastPointOf(geometry).orient = IdentityQuaternion

\* C11: the mode is SingleCreate at construction; key 'f' leaves it
\* SingleCreate and key 'g' leaves it Edit, both returning consumed = true;
\* every other callback (mouse, wheel, handle, selection, interrupt, resume,
\* enter, exit, a key without a branch) leaves the mode as it was.
ModeAtConstruction == op = "init" => mode = SingleCreate
KeysWithBranch == {"f", "b", "g", "Del"}
ModeStep ==
    IF op' = "onKeyEvent"
    THEN /\ arg' = "f" => mode' = SingleCreate /\ consumed'
         /\ arg' = "g" => mode' = Edit /\ consumed'
         /\ arg' \notin KeysWithBranch => mode' = mode
    ELSE mode' = mode
C11_ModeTransitions == []ModeAtConstruction /\ [][ModeStep]_vars
\* Key 'g' pressed while the handle of a selected point is being dragged.
C11_Witness ==
    /\ op = "onKeyEvent"
    /\ arg = "g"
    /\ mode = Edit
    /\ consumed
    /\ undo_stack = <<"editing">>
    /\ handle_shown
    /\ Len(geometry) = 1

\* C12: key 'b' leaves the mode BrushCreate, from any mode, and returns
\* consumed = true.
C12_KeyBSetsBrushCreate ==
    [][(op' = "onKeyEvent" /\ arg' = "b") =>
          (mode' = BrushCreate /\ consumed')]_vars

\* C13: in every mode, with or without an open press gesture, key 'Del' with
\* selected points removes exactly those points, keeps the others as they were
\* and in order, leaves the selection empty and the mode and the pressed flag
\* as they were, and returns consumed = true.
DelKeyPost ==
    (op' = "onKeyEvent" /\ arg' = "Del" /\ Selected # {}) =>
        /\ Len(geometry') = Len(geometry) - Cardinality(Selected)
        /\ \A n \in 0..(Len(geometry) - 1) :
               n \notin Selected =>
                   geometry'[PlaceAfterDelete(n, Selected)] = geometry[n + 1]
        /\ selection' = None
        /\ Selected' = {}
        /\ mode' = mode
        /\ pressed' = pressed
        /\ consumed'
C13_DelKeyModeIndependent == [][DelKeyPost]_vars
\* The first of two points deleted in Edit mode while a press is open.
C13_Witness ==
    /\ op = "onKeyEvent"
    /\ arg = "Del"
    /\ consumed
    /\ mode = Edit
    /\ pressed
    /\ Len(geometry) = 1
    /\ geometry[1].id = 2
    /\ selection = None

\* C14: while the mode is Edit or BrushCreate no left-button mouse event, for
\* whatever reason, changes the point cloud or the selection.
C14_MouseInertOutsideSingleCreate ==
    [][(op' = "onMouseEvent" /\ arg'.left /\ mode \in {Edit, BrushCreate}) =>
          (geometry' = geometry /\ selection' = selection)]_vars

\* C15: a left-button event in SingleCreate mode that opens a press places the
\* new point at the hit on the guide surface only when the enable_guide toggle
\* is on and the guide is valid (no point when the ray misses it); with the
\* toggle off or the guide invalid it places it at the construction-plane
\* intersection.
PlacedAt(position) ==
    /\ Len(geometry') = Len(geometry) + 1
    /\ LastPointOf(geometry').P = position
C15_GuideOnlyWhenEnabled ==
    [][(op' = "onMouseEvent" /\ arg'.left /\ mode = SingleCreate /\ ~pressed) =>
          IF enable_guide /\ isGuideValid
          THEN IF arg'.ray.guide = Miss THEN geometry' = geometry
               ELSE PlacedAt(arg'.ray.guide)
          ELSE PlacedAt(arg'.ray.cplane)]_vars

\* C16: after onInterrupt the pressed flag is false; when a press undo boundary
\* was open the callback issued exactly one endStateUndo for it, which closes
\* it, and otherwise it issued none; the point cloud, the persisted parameter
\* and the selection are as they were.
InterruptPost ==
    op' = "onInterrupt" =>
        /\ ~pressed'
        /\ undo_stack' = <<>>
        /\ calls' = IF undo_stack # <<>> THEN <<"endStateUndo">> ELSE <<>>
        /\ geometry' = geometry
        /\ geo_ptc' = geo_ptc
        /\ selection' = selection
C16_InterruptFinalizesPress == [][InterruptPost]_vars
\* An interrupt that closed the boundary of the press that placed a point.
C16_Witness ==
    /\ op = "onInterrupt"
    /\ calls = <<"endStateUndo">>
    /\ ~pressed
    /\ undo_stack = <<>>
    /\ Len(geometry) = 1
    /\ selection = Selection({0})

\* C17: after onInterrupt the manipulation handle is hidden.
C17_InterruptHidesHandle == op = "onInterrupt" => ~handle_shown

\* C18: right after onSelection and right after onStateToHandle the handle is
\* visible exactly when the selection holds a point; onStateToHandle with an
\* empty selection hides the handle and writes no handle parameter, and with a
\* non-empty one writes the transform of the last selected point.
HandleFollowsSelection ==
    /\ op' \in {"onSelection", "onStateToHandle"} =>
          (handle_shown' <=> Selected' # {})
    /\ op' = "onStateToHandle" =>
          IF Selected = {}
          THEN ~handle_shown' /\ parms_written' = NoParms
          ELSE parms_written' = getPointTransform(GP)
C18_HandleFollowsSelection == [][HandleFollowsSelection]_vars

\* C19: in every reachable state a visible handle has a selection that holds
\* a point.
C19_ShownHandleHasSelection == handle_shown => Selected # {}

\* C20: once onExit has returned no press is open: pressed is false and every
\* beginStateUndo('add') of start has had its endStateUndo.
C20_NoBoundaryOutlivesSession ==
    session = "exited" => (~pressed /\ undo_stack = <<>>)

\* C21: a point that a confirmed clearInstances removed from the geo_ptc
\* parameter never appears in the parameter again, whatever the session does
\* afterwards; a declined clearInstances leaves the parameter as it was.
ClearedStayCleared == Ids(geo_ptc) \cap cleared_ids = {}
DeclinedClearKeeps ==
    (op' = "clearInstances" /\ ~arg') => geo_ptc' = geo_ptc
C21_ClearIsDurable == []ClearedStayCleared /\ [][DeclinedClearKeeps]_vars

====
